---- MODULE Spec2Model ----
(***************************************************************************)
(* Model of zato/cli/quickstart.py: the quickstart provisioning pipeline   *)
(* (Create.execute), the TLS material locator (CryptoMaterialLocation) and *)
(* the start/stop script templates it renders.                             *)
(***************************************************************************)
EXTENDS Integers, Sequences, FiniteSets, TLC

(***************************************************************************)
(* Bounds of the model                                                     *)
(***************************************************************************)
\* largest magnitude of a --servers value that is tried
MaxServers == 3
\* identifiers the server-creation collaborator may return
MaxServerId == 2
\* largest number of files in one out-<kind> directory
MaxFiles == 2

(***************************************************************************)
(* Program constants                                                       *)
(***************************************************************************)
DEFAULT_NO_SERVERS == 1

\* file_mod = stat.S_IRUSR | stat.S_IWUSR | stat.S_IXUSR | stat.S_IRGRP,
\* as the set of permission bits that are or-ed together
file_mod == {"S_IRUSR", "S_IWUSR", "S_IXUSR", "S_IRGRP"}

\* values zato.common.defaults.http_plain_server_port may have
PlainPorts == {17010, 8080}

\* characters of the fixed strings of CryptoMaterialLocation
CERT == <<"c", "e", "r", "t">>
PRIV == <<"p", "r", "i", "v">>
PUB == <<"p", "u", "b">>
OUT == <<"o", "u", "t", "-">>
PEM == <<".", "p", "e", "m">>
CA_MATERIAL == <<"c", "a", "-", "m", "a", "t", "e", "r", "i", "a", "l">>
CA_CERT_PEM == <<"c", "a", "-", "c", "e", "r", "t", ".", "p", "e", "m">>
\* strings the locator is tried on
COMP_LB == <<"l", "b">>
COMP_XLB == <<"x", "l", "b">>
COMP_W == <<"w">>
COMP_Q == <<"q">>
DIR_CA == <<"/", "t", "/", "c", "a">>
DIR_LBCERT_CA == <<"/", "l", "b", "-", "c", "e", "r", "t", "/", "c", "a">>
DIR_REL == <<"c", "a", "/">>

VARIABLES
    is_windows,            \* zato.common.util.platform_.is_windows
    http_plain_server_port,\* zato.common.defaults.http_plain_server_port
    args_servers,          \* args.servers as given on the command line
    pc,                    \* position of Create.execute
    servers,               \* int(... or DEFAULT_NO_SERVERS)
    server_names,          \* the OrderedDict, as the sequence of its indexes
    total_steps,
    next_step,             \* count(1): the value the next next() returns
    next_port,             \* count(http_plain_server_port)
    idx,                   \* number of servers the stage 4 loop has finished
    first_server_path,     \* 0 is '', i is <args_path>/server<i>
    log,                   \* the '[step/total] message' lines of self.logger
    calls,                 \* collaborators invoked, in order
    artifacts,             \* directories and collaborator products on disk/ODB
    files,                 \* scripts written by open_w, path -> content
    modes,                 \* os.chmod, path -> mode
    ran,                   \* script path -> "$1" and commands of its last run
    subs,                  \* the ODB's PubSubSubscription rows, by id
    \* CryptoMaterialLocation and the directory tree it scans
    ca_dir,                \* self.ca_dir, a string
    component_pattern,     \* self.component_pattern, a string
    out_files,             \* crypto_name -> the file names in <ca_dir>/out-<crypto_name>
    ca_exists,             \* whether <ca_dir> and its out-* directories exist
    located,               \* "no": not constructed, "yes": constructed, "error": raised
    ca_certs_path,
    cert_path,
    pub_path,
    priv_path

pipeline_vars == <<is_windows, http_plain_server_port, args_servers, pc, servers,
                   server_names, total_steps, next_step, next_port, idx,
                   first_server_path, log, calls, artifacts, files, modes, ran,
                   subs>>

locate_vars == <<ca_dir, component_pattern, out_files, ca_exists, located,
                 ca_certs_path, cert_path, pub_path, priv_path>>

vars == <<pipeline_vars, locate_vars>>

is_non_windows == ~is_windows

(***************************************************************************)
(* Python values of args.servers: absent, an int, or a decimal string.     *)
(* A string carries the integer that int() parses from it.                 *)
(***************************************************************************)
ServersArgs ==
    {[kind |-> "absent", val |-> 0]}
      \cup [kind : {"int", "str"}, val : (-1)..MaxServers]

\* getattr(args, 'servers', 0)
PyGetattrServers(a) == IF a.kind = "absent" THEN [kind |-> "int", val |-> 0] ELSE a

\* truth value of a Python int or of a non-empty str
PyTruthy(v) == IF v.kind = "int" THEN v.val # 0 ELSE TRUE

\* a or b
PyOr(a, b) == IF PyTruthy(a) THEN a ELSE b

\* int(v)
PyInt(v) == v.val

\* servers = int(getattr(args, 'servers', 0) or DEFAULT_NO_SERVERS)
ServersOf(a) ==
    PyInt(PyOr(PyGetattrServers(a), [kind |-> "int", val |-> DEFAULT_NO_SERVERS]))

\* server_names: for idx in range(1, servers+1)
ServerNamesOf(n) == [i \in 1..n |-> i]

\* the two platform totals the wrong way round
total_non_servers_steps_swapped == IF is_windows THEN 7 ELSE 5

\* total_non_servers_steps = 5 if is_windows else 7
total_non_servers_steps == IF is_windows THEN 5 ELSE 7

\* a collaborator invocation and how it ended: "ok" (returned), "exists"
\* (returned the already-exists sentinel) or "raise"
Call(name, n, port, path, outcome) ==
    [name |-> name, n |-> n, port |-> port, server_path |-> path, server_id |-> 0,
     outcome |-> outcome]

\* self._set_pubsub_server(args, server_id, cluster_name, '/zato/demo/sample'),
\* made while server n is being created
PubSubCall(n, server_id, outcome) ==
    [name |-> "_set_pubsub_server", n |-> n, port |-> 0, server_path |-> 0,
     server_id |-> server_id, outcome |-> outcome]

\* create_server.Create(...).execute(...) that returned server_id
Created(n, port, server_id) ==
    [name |-> "create_server", n |-> n, port |-> port, server_path |-> 0,
     server_id |-> server_id, outcome |-> "ok"]

\* something left behind on disk or in the ODB
Dir(comp, n) == [what |-> "dir", comp |-> comp, n |-> n]
Made(comp, n) == [what |-> "made", comp |-> comp, n |-> n]

\* one '[step/total] message' progress line
LogLine(msg, n) == [step |-> next_step, total |-> total_steps, msg |-> msg, n |-> n]


(***************************************************************************)
(* The ODB tables _set_pubsub_server reads and writes.  A row's id is its  *)
(* index; a subscription's server_id 0 is NULL.                            *)
(***************************************************************************)
\* the name of the cluster this run creates, and of another one in the ODB
cluster_name == "quickstart"
Clusters == <<cluster_name, "other-cluster">>

\* the topic execute names in its call of _set_pubsub_server
sample_topic_name == "/zato/demo/sample"

\* PubSubTopic rows: the sample topic in both clusters, another topic in each
Topics ==
    <<[name |-> sample_topic_name, cluster_id |-> 1],
      [name |-> sample_topic_name, cluster_id |-> 2],
      [name |-> "/other/topic", cluster_id |-> 1],
      [name |-> "/other/topic", cluster_id |-> 2]>>

\* the topic of each PubSubSubscription row: two subscriptions of the sample
\* topic of this cluster, one of every other topic
SubTopics == <<1, 1, 2, 3, 4>>

\* the server_id of each row before the run: NULL, or the id of a server of
\* an earlier run against the same ODB
SubServerIds == <<0, MaxServerId, MaxServerId, 0, MaxServerId>>

\* the subscription table before the run
InitialSubs ==
    [i \in 1..Len(SubTopics) |-> [topic_id |-> SubTopics[i], server_id |-> SubServerIds[i]]]

\* the query of _set_pubsub_server: subscriptions joined with their topic and
\* the topic's cluster, filtered by topic name and cluster name
SubList(table, cluster_name_, topic_name) ==
    {i \in DOMAIN table :
        \E t \in DOMAIN Topics, c \in DOMAIN Clusters :
           /\ t = table[i].topic_id
           /\ Topics[t].name = topic_name
           /\ Topics[t].cluster_id = c
           /\ Clusters[c] = cluster_name_}

\* the update that forgets the cluster filter
SetPubSubServerAnyCluster(table, server_id, cluster_name_, topic_name) ==
    [i \in DOMAIN table |->
        IF Topics[table[i].topic_id].name = topic_name
        THEN [table[i] EXCEPT !.server_id = server_id]
        ELSE table[i]]

\* _set_pubsub_server once committed: every row of the query gets server_id
SetPubSubServer(table, server_id, cluster_name_, topic_name) ==
    [i \in DOMAIN table |->
        IF i \in SubList(table, cluster_name_, topic_name)
        THEN [table[i] EXCEPT !.server_id = server_id]
        ELSE table[i]]

(***************************************************************************)
(* Create.execute                                                          *)
(***************************************************************************)
PipelineInit ==
    /\ is_windows \in BOOLEAN
    /\ http_plain_server_port \in PlainPorts
    /\ args_servers \in ServersArgs
    /\ pc = "start"
    /\ servers = 0
    /\ server_names = <<>>
    /\ total_steps = 0
    /\ next_step = 1
    /\ next_port = 0
    /\ idx = 0
    /\ first_server_path = 0
    /\ log = <<>>
    /\ calls = <<>>
    /\ artifacts = {}
    /\ files = <<>>
    /\ modes = <<>>
    /\ ran = <<>>
    /\ subs = InitialSubs

\* state of the pipeline while the locator is the subject
PipelineIdle ==
    /\ is_windows = FALSE
    /\ http_plain_server_port = 17010
    /\ args_servers = [kind |-> "absent", val |-> 0]
    /\ pc = "idle"
    /\ servers = 0
    /\ server_names = <<>>
    /\ total_steps = 0
    /\ next_step = 1
    /\ next_port = 0
    /\ idx = 0
    /\ first_server_path = 0
    /\ log = <<>>
    /\ calls = <<>>
    /\ artifacts = {}
    /\ files = <<>>
    /\ modes = <<>>
    /\ ran = <<>>
    /\ subs = InitialSubs

\* lines 369-393: counters, server count, server names, total step count
Setup ==
    /\ pc = "start"
    /\ next_step' = 1
    /\ next_port' = http_plain_server_port
    /\ servers' = ServersOf(args_servers)
    /\ server_names' = ServerNamesOf(ServersOf(args_servers))
    /\ total_steps' = total_non_servers_steps + ServersOf(args_servers)
    /\ pc' = "ca"
    /\ UNCHANGED <<is_windows, http_plain_server_port, args_servers, idx,
                   first_server_path, log, calls, artifacts, files, modes, ran>>
    /\ UNCHANGED locate_vars
    /\ UNCHANGED subs

\* the CA collaborators of stage 1, in the order execute invokes them
CACalls ==
    <<Call("ca_create_ca", 0, 0, 0, "ok"), Call("ca_create_lb_agent", 0, 0, 0, "ok"),
      Call("ca_create_web_admin", 0, 0, 0, "ok"), Call("ca_create_scheduler", 0, 0, 0, "ok")>>
      \o [i \in 1..Len(server_names) |->
            Call("ca_create_server", server_names[i], 0, 0, "ok")]

\* the invocations of stage 1 when k collaborators return and the next raises
CACallsUpTo(k) ==
    SubSeq(CACalls, 1, k)
      \o (IF k < Len(CACalls)
          THEN <<[CACalls[k + 1] EXCEPT !.outcome = "raise"]>>
          ELSE <<>>)

\* what the k-th CA collaborator leaves in <args_path>/ca
CAMade(k) == Made(CACalls[k].name, CACalls[k].n)

\* 1) CA: only with TLS (non-Windows); k collaborators return, the next raises
StageCA ==
    /\ pc = "ca"
    /\ IF is_non_windows
       THEN \E k \in 0..Len(CACalls) :
              /\ calls' = calls \o CACallsUpTo(k)
              /\ artifacts' = artifacts \cup {Dir("ca", 0)} \cup {CAMade(j) : j \in 1..k}
              /\ IF k = Len(CACalls)
                 THEN /\ log' = Append(log, LogLine("Certificate authority created", 0))
                      /\ next_step' = next_step + 1
                      /\ pc' = "odb"
                 ELSE /\ pc' = "raised"
                      /\ UNCHANGED <<log, next_step>>
       ELSE /\ log' = Append(log, LogLine("Certificate authority created", 0))
            /\ next_step' = next_step + 1
            /\ pc' = "odb"
            /\ UNCHANGED <<calls, artifacts>>
    /\ UNCHANGED <<is_windows, http_plain_server_port, args_servers, servers,
                   server_names, total_steps, next_port, idx, first_server_path,
                   files, modes, ran>>
    /\ UNCHANGED locate_vars
    /\ UNCHANGED subs

\* one message for both results of create_odb
ODBMessageSame(result) == "ODB schema created"

\* the progress message of stage 2, by what create_odb returned
ODBMessage(result) ==
    IF result = "ODB_EXISTS" THEN "ODB schema already exists" ELSE "ODB schema created"

\* 2) ODB: create_odb returns SYS_ERROR.ODB_EXISTS, returns something else, or raises
StageODB ==
    /\ pc = "odb"
    /\ \E result \in {"ODB_EXISTS", "ok", "raise"} :
         CASE result = "ODB_EXISTS" ->
                /\ calls' = Append(calls, Call("create_odb", 0, 0, 0, "exists"))
                /\ log' = Append(log, LogLine(ODBMessage(result), 0))
                /\ next_step' = next_step + 1
                /\ pc' = "cluster"
                /\ UNCHANGED artifacts
           [] result = "ok" ->
                /\ calls' = Append(calls, Call("create_odb", 0, 0, 0, "ok"))
                /\ log' = Append(log, LogLine(ODBMessage(result), 0))
                /\ next_step' = next_step + 1
                /\ artifacts' = artifacts \cup {Made("create_odb", 0)}
                /\ pc' = "cluster"
           [] OTHER ->
                /\ calls' = Append(calls, Call("create_odb", 0, 0, 0, "raise"))
                /\ pc' = "raised"
                /\ UNCHANGED <<log, next_step, artifacts>>
    /\ UNCHANGED <<is_windows, http_plain_server_port, args_servers, servers,
                   server_names, total_steps, next_port, idx, first_server_path,
                   files, modes, ran>>
    /\ UNCHANGED locate_vars
    /\ UNCHANGED subs

\* the progress message of stage 3, by what create_cluster returned
ClusterMessage(result) ==
    IF result = "CLUSTER_NAME_ALREADY_EXISTS"
    THEN "Cluster already exists"
    ELSE "Cluster created with ODB initial data"

\* 3) ODB initial data: create_cluster returns CLUSTER_NAME_ALREADY_EXISTS,
\*    returns something else, or raises
StageCluster ==
    /\ pc = "cluster"
    /\ \E result \in {"CLUSTER_NAME_ALREADY_EXISTS", "ok", "raise"} :
         CASE result = "CLUSTER_NAME_ALREADY_EXISTS" ->
                /\ calls' = Append(calls, Call("create_cluster", 0, 0, 0, "exists"))
                /\ log' = Append(log, LogLine(ClusterMessage(result), 0))
                /\ next_step' = next_step + 1
                /\ pc' = "servers"
                /\ UNCHANGED artifacts
           [] result = "ok" ->
                /\ calls' = Append(calls, Call("create_cluster", 0, 0, 0, "ok"))
                /\ log' = Append(log, LogLine(ClusterMessage(result), 0))
                /\ next_step' = next_step + 1
                /\ artifacts' = artifacts \cup {Made("create_cluster", 0)}
                /\ pc' = "servers"
           [] OTHER ->
                /\ calls' = Append(calls, Call("create_cluster", 0, 0, 0, "raise"))
                /\ pc' = "raised"
                /\ UNCHANGED <<log, next_step, artifacts>>
    /\ UNCHANGED <<is_windows, http_plain_server_port, args_servers, servers,
                   server_names, total_steps, next_port, idx, first_server_path,
                   files, modes, ran>>
    /\ UNCHANGED locate_vars
    /\ UNCHANGED subs


\* 4) servers: one iteration of the loop over server_names; create_server
\*    returns a server id or raises, and for the first server
\*    _set_pubsub_server commits or raises
StageServer ==
    /\ pc = "servers"
    /\ idx < Len(server_names)
    /\ LET name == server_names[idx + 1]
           port == next_port
       IN  /\ next_port' = next_port + 1
           /\ \E result \in {"ok", "raise", "raise_pubsub"}, server_id \in 1..MaxServerId :
                CASE result = "raise" ->
                     /\ calls' = Append(calls, Call("create_server", name, port, 0, "raise"))
                     /\ artifacts' = artifacts \cup {Dir("server", name)}
                     /\ pc' = "raised"
                     /\ UNCHANGED <<idx, first_server_path, log, next_step, subs>>
                  [] result = "raise_pubsub" ->
                     /\ idx = 0
                     /\ calls' = calls \o <<Created(name, port, server_id),
                                            PubSubCall(name, server_id, "raise")>>
                     /\ artifacts' = artifacts \cup {Dir("server", name), Made("create_server", name)}
                     /\ pc' = "raised"
                     /\ UNCHANGED <<idx, first_server_path, log, next_step, subs>>
                  [] OTHER ->
                     /\ calls' = calls \o <<Created(name, port, server_id)>>
                                   \o (IF idx = 0
                                       THEN <<PubSubCall(name, server_id, "ok")>>
                                       ELSE <<>>)
                     /\ subs' = IF idx = 0
                                THEN SetPubSubServer(subs, server_id, cluster_name,
                                                     sample_topic_name)
                                ELSE subs
                     /\ artifacts' = artifacts \cup {Dir("server", name), Made("create_server", name)}
                     /\ first_server_path' = IF idx = 0 THEN name ELSE first_server_path
                     /\ log' = Append(log, LogLine("server created", name))
                     /\ next_step' = next_step + 1
                     /\ idx' = idx + 1
                     /\ pc' = "servers"
    /\ UNCHANGED <<is_windows, http_plain_server_port, args_servers, servers,
                   server_names, total_steps, files, modes, ran>>
    /\ UNCHANGED locate_vars

\* the load-balancer port without the subtraction
ServersPortNoSub(next_value) == next_value

\* servers_port = next(next_port) - 1, for the value next() returned
ServersPort(next_value) == next_value - 1

\* stage 5 that logs its progress line on every platform
StageLBAlwaysLogs ==
    /\ pc = "servers"
    /\ idx = Len(server_names)
    /\ LET servers_port == ServersPort(next_port)
       IN  /\ next_port' = next_port + 1
           /\ \E result \in {"ok", "raise"} :
                /\ calls' = Append(calls, Call("create_lb", 0, servers_port, 0, result))
                /\ IF result = "ok"
                   THEN /\ artifacts' = artifacts \cup {Dir("load-balancer", 0), Made("create_lb", 0)}
                        /\ IF TRUE
                           THEN /\ log' = Append(log, LogLine("Load-balancer created", 0))
                                /\ next_step' = next_step + 1
                           ELSE UNCHANGED <<log, next_step>>
                        /\ pc' = "web_admin"
                   ELSE /\ artifacts' = artifacts \cup {Dir("load-balancer", 0)}
                        /\ pc' = "raised"
                        /\ UNCHANGED <<log, next_step>>
    /\ UNCHANGED <<is_windows, http_plain_server_port, args_servers, servers,
                   server_names, total_steps, idx, first_server_path, files, modes, ran>>
    /\ UNCHANGED locate_vars
    /\ UNCHANGED subs

\* 5) load-balancer, entered when the loop over server_names is exhausted
StageLB ==
    /\ pc = "servers"
    /\ idx = Len(server_names)
    /\ LET servers_port == ServersPort(next_port)
       IN  /\ next_port' = next_port + 1
           /\ \E result \in {"ok", "raise"} :
                /\ calls' = Append(calls, Call("create_lb", 0, servers_port, 0, result))
                /\ IF result = "ok"
                   THEN /\ artifacts' = artifacts \cup {Dir("load-balancer", 0), Made("create_lb", 0)}
                        /\ IF is_non_windows
                           THEN /\ log' = Append(log, LogLine("Load-balancer created", 0))
                                /\ next_step' = next_step + 1
                           ELSE UNCHANGED <<log, next_step>>
                        /\ pc' = "web_admin"
                   ELSE /\ artifacts' = artifacts \cup {Dir("load-balancer", 0)}
                        /\ pc' = "raised"
                        /\ UNCHANGED <<log, next_step>>
    /\ UNCHANGED <<is_windows, http_plain_server_port, args_servers, servers,
                   server_names, total_steps, idx, first_server_path, files, modes, ran>>
    /\ UNCHANGED locate_vars
    /\ UNCHANGED subs

\* stage 6 with the failure of create_web_admin swallowed
StageWebAdminSwallow ==
    /\ pc = "web_admin"
    /\ \E result \in {"ok", "raise"} :
         /\ calls' = Append(calls, Call("create_web_admin", 0, 0, 0, result))
         /\ IF result = "ok"
            THEN /\ artifacts' = artifacts \cup {Dir("web-admin", 0), Made("create_web_admin", 0)}
                 /\ log' = Append(log, LogLine("Dashboard created", 0))
                 /\ next_step' = next_step + 1
                 /\ pc' = "scheduler"
            ELSE /\ artifacts' = artifacts \cup {Dir("web-admin", 0)}
                 /\ pc' = "scheduler"
                 /\ UNCHANGED <<log, next_step>>
    /\ UNCHANGED <<is_windows, http_plain_server_port, args_servers, servers,
                   server_names, total_steps, next_port, idx, first_server_path,
                   files, modes, ran>>
    /\ UNCHANGED locate_vars
    /\ UNCHANGED subs

\* 6) web admin
StageWebAdmin ==
    /\ pc = "web_admin"
    /\ \E result \in {"ok", "raise"} :
         /\ calls' = Append(calls, Call("create_web_admin", 0, 0, 0, result))
         /\ IF result = "ok"
            THEN /\ artifacts' = artifacts \cup {Dir("web-admin", 0), Made("create_web_admin", 0)}
                 /\ log' = Append(log, LogLine("Dashboard created", 0))
                 /\ next_step' = next_step + 1
                 /\ pc' = "scheduler"
            ELSE /\ artifacts' = artifacts \cup {Dir("web-admin", 0)}
                 /\ pc' = "raised"
                 /\ UNCHANGED <<log, next_step>>
    /\ UNCHANGED <<is_windows, http_plain_server_port, args_servers, servers,
                   server_names, total_steps, next_port, idx, first_server_path,
                   files, modes, ran>>
    /\ UNCHANGED locate_vars
    /\ UNCHANGED subs

\* 7) scheduler
StageScheduler ==
    /\ pc = "scheduler"
    /\ \E result \in {"ok", "raise"} :
         /\ calls' = Append(calls, Call("create_scheduler", 0, 0, first_server_path, result))
         /\ IF result = "ok"
            THEN /\ artifacts' = artifacts \cup {Dir("scheduler", 0), Made("create_scheduler", 0)}
                 /\ log' = Append(log, LogLine("Scheduler created", 0))
                 /\ next_step' = next_step + 1
                 /\ pc' = "scripts"
            ELSE /\ artifacts' = artifacts \cup {Dir("scheduler", 0)}
                 /\ pc' = "raised"
                 /\ UNCHANGED <<log, next_step>>
    /\ UNCHANGED <<is_windows, http_plain_server_port, args_servers, servers,
                   server_names, total_steps, next_port, idx, first_server_path,
                   files, modes, ran>>
    /\ UNCHANGED locate_vars
    /\ UNCHANGED subs


(***************************************************************************)
(* Script templates.  A script is the sequence of its command lines; a     *)
(* line names the command, the component it acts on, the number written in *)
(* it (a server index or a step count), its '[label/$STEPS]' label and the *)
(* "$1" value of the if-block around it ("" outside any if-block).         *)
(***************************************************************************)
NoLabel == [var |-> FALSE, num |-> 0]
\* a label rendered as a number by str.format
Num(k) == [var |-> FALSE, num |-> k]
\* the label text $STEPS, resolved by the shell when the script runs
StepsVar == [var |-> TRUE, num |-> 0]

Ln(cmd, comp, n, label) ==
    [cmd |-> cmd, comp |-> comp, n |-> n, label |-> label, only_if |-> ""]
LnIf(flag, cmd, comp, n) ==
    [cmd |-> cmd, comp |-> comp, n |-> n, label |-> NoLabel, only_if |-> flag]

\* '\n'.join(parts)
RECURSIVE Join(_)
Join(parts) == IF parts = <<>> THEN <<>> ELSE Head(parts) \o Join(Tail(parts))

windows_qs_start_template ==
    <<Ln("start", "server", 1, NoLabel),
      Ln("start", "web-admin", 0, NoLabel),
      Ln("start", "scheduler", 0, NoLabel),
      Ln("echo", "Starting Zato", 0, NoLabel)>>

check_config_template(server_name) ==
    <<Ln("check-config", "server", server_name, NoLabel)>>

start_servers_template(server_name, step_number) ==
    <<Ln("start", "server", server_name, NoLabel),
      Ln("echo", "server", server_name, Num(step_number))>>

zato_qs_start_head_template(start_steps_) ==
    <<Ln("set -e", "", 0, NoLabel),
      Ln("STEPS=", "", start_steps_, NoLabel),
      Ln("echo", "Starting Zato cluster", 0, NoLabel),
      Ln("echo", "Checking configuration", 0, NoLabel)>>

\* the body with the servers started before the load balancer
zato_qs_start_body_servers_first(check_config_, start_lb, scheduler_step_count, start_servers_) ==
    check_config_
      \o <<Ln("echo", "Redis connection OK", 0, Num(1)),
           Ln("echo", "SQL ODB connection OK", 0, Num(2)),
           Ln("echo", "Checking TCP ports availability", 0, Num(3)),
           Ln("check_tcp_ports.py", "", 0, NoLabel)>>
      \o start_servers_
      \o start_lb
      \o <<Ln("start", "scheduler", 0, NoLabel),
           Ln("echo", "scheduler", 0, Num(scheduler_step_count))>>

zato_qs_start_body_template(check_config_, start_lb, scheduler_step_count, start_servers_) ==
    check_config_
      \o <<Ln("echo", "Redis connection OK", 0, Num(1)),
           Ln("echo", "SQL ODB connection OK", 0, Num(2)),
           Ln("echo", "Checking TCP ports availability", 0, Num(3)),
           Ln("check_tcp_ports.py", "", 0, NoLabel)>>
      \o start_lb
      \o start_servers_
      \o <<Ln("start", "scheduler", 0, NoLabel),
           Ln("echo", "scheduler", 0, Num(scheduler_step_count))>>

zato_qs_start_lb_windows ==
    <<Ln("echo", "(Skipped starting load balancer)", 0, Num(4))>>

zato_qs_start_lb_non_windows ==
    <<Ln("start", "load-balancer", 0, NoLabel),
      Ln("echo", "load-balancer", 0, Num(4))>>

zato_qs_start_tail ==
    <<Ln("start", "web-admin", 0, NoLabel),
      Ln("echo", "web-admin", 0, StepsVar),
      Ln("cd", "", 0, NoLabel),
      Ln("echo", "Zato cluster started", 0, NoLabel),
      Ln("exit", "", 0, NoLabel)>>

stop_servers_template(server_name, step_number) ==
    <<Ln("stop", "server", server_name, NoLabel),
      Ln("echo", "server", server_name, Num(step_number))>>

zato_qs_stop_template(stop_servers_, web_admin_step_count, stop_steps_) ==
    <<LnIf("--delete-pidfiles", "echo", "Deleting PID files", 0),
      LnIf("--delete-pidfiles", "rm pidfile", "load-balancer", 0),
      LnIf("--delete-pidfiles", "rm zato-lb-agent.pid", "load-balancer", 0),
      LnIf("--delete-pidfiles", "rm pidfile", "server", 1),
      LnIf("--delete-pidfiles", "rm pidfile", "server", 2),
      LnIf("--delete-pidfiles", "rm pidfile", "web-admin", 0),
      LnIf("--delete-pidfiles", "rm pidfile", "scheduler", 0),
      LnIf("--delete-pidfiles", "echo", "PID files deleted", 0),
      Ln("STEPS=", "", stop_steps_, NoLabel),
      Ln("echo", "Stopping Zato cluster", 0, NoLabel),
      Ln("stop", "load-balancer", 0, NoLabel),
      Ln("echo", "load-balancer", 0, Num(1))>>
      \o stop_servers_
      \o <<Ln("stop", "web-admin", 0, NoLabel),
           Ln("echo", "web-admin", 0, Num(web_admin_step_count)),
           Ln("stop", "scheduler", 0, NoLabel),
           Ln("echo", "scheduler", 0, StepsVar),
           Ln("cd", "", 0, NoLabel),
           Ln("echo", "Zato cluster stopped", 0, NoLabel)>>

zato_qs_restart ==
    <<Ln("cd", "", 0, NoLabel),
      Ln("run", "zato-qs-stop.sh", 0, NoLabel),
      Ln("run", "zato-qs-start.sh", 0, NoLabel)>>

vscode_launch_json == <<Ln("json", "launch", 0, NoLabel)>>
vscode_settings_json == <<Ln("json", "settings", 0, NoLabel)>>

(***************************************************************************)
(* 8) Scripts: rendering (lines 603-640)                                   *)
(***************************************************************************)
\* the three lists built by the loop over server_names, then joined
check_config ==
    Join([i \in 1..Len(server_names) |-> check_config_template(server_names[i])])
start_servers ==
    Join([i \in 1..Len(server_names) |->
            start_servers_template(server_names[i], server_names[i] + 4)])
stop_servers ==
    Join([i \in 1..Len(server_names) |->
            stop_servers_template(server_names[i], server_names[i] + 1)])
\* the start step count that leaves the load balancer out
start_steps_short == 5 + servers

start_steps == 6 + servers
stop_steps == 3 + servers

zato_qs_start ==
    zato_qs_start_head_template(start_steps)
      \o zato_qs_start_body_template(
            check_config,
            IF is_windows THEN zato_qs_start_lb_windows ELSE zato_qs_start_lb_non_windows,
            start_steps - 1,
            start_servers)
      \o zato_qs_start_tail

zato_qs_stop == zato_qs_stop_template(stop_servers, stop_steps - 1, stop_steps)

\* the start script path that ignores the platform
zato_qs_start_path_sh == "zato-qs-start.sh"

zato_qs_start_path == IF is_windows THEN "zato-qs-start.bat" ELSE "zato-qs-start.sh"
zato_qs_stop_path == "zato-qs-stop.sh"
zato_qs_restart_path == "zato-qs-restart.sh"


(***************************************************************************)
(* 8) Scripts: writing (lines 584-658)                                     *)
(***************************************************************************)
Op(op, path, content, mode) ==
    [op |-> op, path |-> path, content |-> content, mode |-> mode]

\* the filesystem operations of stage 8, in program order
ScriptOps ==
    <<Op("mkdir", ".vscode", <<>>, {}),
      Op("write", ".vscode/launch.json", vscode_launch_json, {}),
      Op("write", ".vscode/settings.json", vscode_settings_json, {})>>
      \o (IF is_windows
          THEN <<Op("write", zato_qs_start_path, windows_qs_start_template, {})>>
          ELSE <<Op("write", zato_qs_start_path, zato_qs_start, {}),
                 Op("write", zato_qs_stop_path, zato_qs_stop, {}),
                 Op("write", zato_qs_restart_path, zato_qs_restart, {}),
                 Op("chmod", zato_qs_start_path, <<>>, file_mod),
                 Op("chmod", zato_qs_stop_path, <<>>, file_mod),
                 Op("chmod", zato_qs_restart_path, <<>>, file_mod)>>)

\* the files (or modes) after the first k operations, on an empty directory
Applied(kind, k) ==
    LET done == {i \in 1..k : ScriptOps[i].op = kind}
    IN  [p \in {ScriptOps[i].path : i \in done} |->
            LET i == CHOOSE j \in done : ScriptOps[j].path = p
            IN  IF kind = "write" THEN ScriptOps[i].content ELSE ScriptOps[i].mode]

\* k operations succeed and, unless k is all of them, the next one raises
StageScripts ==
    /\ pc = "scripts"
    /\ \E k \in 0..Len(ScriptOps) :
         /\ artifacts' = artifacts \cup (IF k >= 1 THEN {Dir(".vscode", 0)} ELSE {})
         /\ files' = Applied("write", k)
         /\ modes' = Applied("chmod", k)
         /\ IF k = Len(ScriptOps)
            THEN /\ IF is_windows
                    THEN UNCHANGED <<log, next_step>>
                    ELSE /\ log' = Append(log, LogLine("Management scripts created", 0))
                         /\ next_step' = next_step + 1
                 /\ pc' = "done"
            ELSE /\ pc' = "raised"
                 /\ UNCHANGED <<log, next_step>>
    /\ UNCHANGED <<is_windows, http_plain_server_port, args_servers, servers,
                   server_names, total_steps, next_port, idx, first_server_path,
                   calls, ran>>
    /\ UNCHANGED locate_vars
    /\ UNCHANGED subs

(***************************************************************************)
(* Running a generated script: lines run top to bottom, a line inside an   *)
(* if-block runs only when "$1" is the block's flag, $STEPS in a label is  *)
(* the value of the last STEPS= line, and exit ends the run.               *)
(***************************************************************************)
RECURSIVE Exec(_, _, _)
Exec(lines, arg, steps) ==
    IF lines = <<>> THEN <<>>
    ELSE LET l == Head(lines)
         IN  IF l.only_if # "" /\ l.only_if # arg THEN Exec(Tail(lines), arg, steps)
             ELSE IF l.cmd = "STEPS=" THEN Exec(Tail(lines), arg, l.n)
             ELSE IF l.cmd = "exit" THEN <<[cmd |-> "exit", comp |-> "", n |-> 0, step |-> 0]>>
             ELSE <<[cmd |-> l.cmd, comp |-> l.comp, n |-> l.n,
                     step |-> IF l.label.var THEN steps ELSE l.label.num]>>
                    \o Exec(Tail(lines), arg, steps)

\* the operator runs one of the scripts the finished pipeline wrote
RunScript ==
    /\ pc = "done"
    /\ \E path \in {zato_qs_start_path, zato_qs_stop_path, zato_qs_restart_path},
          arg \in {"", "--delete-pidfiles"} :
         /\ path \in DOMAIN files
         /\ ran' = [p \in DOMAIN ran \cup {path} |->
                      IF p # path THEN ran[p]
                      ELSE [arg |-> arg,
                            trace |-> IF path = zato_qs_restart_path
                                      THEN Exec(files[zato_qs_stop_path], "", 0)
                                             \o Exec(files[zato_qs_start_path], "", 0)
                                      ELSE Exec(files[path], arg, 0)]]
    /\ UNCHANGED <<is_windows, http_plain_server_port, args_servers, pc, servers,
                   server_names, total_steps, next_step, next_port, idx,
                   first_server_path, log, calls, artifacts, files, modes>>
    /\ UNCHANGED locate_vars
    /\ UNCHANGED subs

(***************************************************************************)
(* Strings of the locator are sequences of characters, so that Python's    *)
(* substring test and os.path.join are computed as the code computes them. *)
(***************************************************************************)
\* None, and the only string no path can be
None == <<>>

\* sub in s
Contains(sub, s) ==
    \E i \in 0..(Len(s) - Len(sub)) : SubSeq(s, i + 1, i + Len(sub)) = sub

\* os.path.join(a, b) of posixpath
PathJoin(a, b) ==
    IF b # <<>> /\ Head(b) = "/" THEN b
    ELSE IF a = <<>> \/ a[Len(a)] = "/" THEN a \o b
    ELSE a \o <<"/">> \o b

\* the characters of a crypto_name
KindStr(crypto_name) ==
    CASE crypto_name = "cert" -> CERT
      [] crypto_name = "priv" -> PRIV
      [] crypto_name = "pub" -> PUB

\* the tuple ('cert', 'priv', 'pub') that locate iterates over
CryptoNames == <<"cert", "priv", "pub">>

\* 'out-{}'.format(crypto_name)
OutDirName(crypto_name) == OUT \o KindStr(crypto_name)

\* '{}-{}'.format(pattern, crypto_name)
Needle(pattern, crypto_name) == pattern \o <<"-">> \o KindStr(crypto_name)

\* the inner loop of locate over one directory listing: the attribute keeps
\* the full path of the last listed name whose full path contains the needle
RECURSIVE ScanListing(_, _, _, _)
ScanListing(listing, path, needle, attr) ==
    IF listing = <<>> THEN attr
    ELSE LET full_path == PathJoin(path, Head(listing))
         IN  ScanListing(Tail(listing), path, needle,
                         IF Contains(needle, full_path) THEN full_path ELSE attr)

\* CryptoMaterialLocation.locate for one crypto_name, os.listdir yielding `listing`
LocateKind(dir, pattern, crypto_name, listing) ==
    ScanListing(listing, PathJoin(dir, OutDirName(crypto_name)),
                Needle(pattern, crypto_name), None)

\* the orders in which os.listdir may yield the names of a directory
Listings(names) ==
    {l \in [1..Cardinality(names) -> names] :
        \A i, j \in 1..Cardinality(names) : i # j => l[i] # l[j]}

(***************************************************************************)
(* Directories and patterns the locator is tried on                        *)
(***************************************************************************)
\* component names whose material may be found in the out-* directories
Components == {COMP_LB, COMP_XLB, COMP_W}
\* a file name of a component's material of one kind
MaterialName(comp, crypto_name) == comp \o <<"-">> \o KindStr(crypto_name) \o PEM
CaDirs == {DIR_CA, DIR_LBCERT_CA, DIR_REL}
Patterns == {COMP_LB, COMP_W, COMP_Q}

LocateInit ==
    /\ ca_dir \in CaDirs
    /\ component_pattern \in Patterns
    /\ ca_exists \in BOOLEAN
    /\ \E comps \in SUBSET Components :
         /\ Cardinality(comps) <= MaxFiles
         /\ out_files = [k \in {"cert", "priv", "pub"} |->
                           IF ca_exists THEN {MaterialName(c, k) : c \in comps} ELSE {}]
    /\ located = "no"
    /\ ca_certs_path = None
    /\ cert_path = None
    /\ pub_path = None
    /\ priv_path = None

\* state of the locator while the pipeline is the subject
LocateIdle ==
    /\ ca_dir = None
    /\ component_pattern = None
    /\ ca_exists = FALSE
    /\ out_files = [k \in {"cert", "priv", "pub"} |-> {}]
    /\ located = "no"
    /\ ca_certs_path = None
    /\ cert_path = None
    /\ pub_path = None
    /\ priv_path = None

\* CryptoMaterialLocation(ca_dir, component_pattern): __init__ and its locate();
\* os.listdir raises when the directory is missing, and yields the names of
\* an existing directory in an arbitrary order
New ==
    /\ located \in {"no", "yes"}
    /\ ca_certs_path' = PathJoin(PathJoin(ca_dir, CA_MATERIAL), CA_CERT_PEM)
    /\ IF ~ca_exists
       THEN /\ located' = "error"
            /\ cert_path' = None
            /\ pub_path' = None
            /\ priv_path' = None
       ELSE \E lc \in Listings(out_files["cert"]),
               lv \in Listings(out_files["priv"]),
               lp \in Listings(out_files["pub"]) :
              /\ cert_path' = LocateKind(ca_dir, component_pattern, "cert", lc)
              /\ priv_path' = LocateKind(ca_dir, component_pattern, "priv", lv)
              /\ pub_path' = LocateKind(ca_dir, component_pattern, "pub", lp)
              /\ located' = "yes"
    /\ UNCHANGED <<ca_dir, component_pattern, out_files, ca_exists>>
    /\ UNCHANGED pipeline_vars

LocateNext == New

InitLocate == PipelineIdle /\ LocateInit

SpecLocate == InitLocate /\ [][LocateNext]_vars

Next ==
    \/ Setup
    \/ StageCA
    \/ StageODB
    \/ StageCluster
    \/ StageServer
    \/ StageLB
    \/ StageWebAdmin
    \/ StageScheduler
    \/ StageScripts
    \/ RunScript

Init == PipelineInit /\ LocateIdle

Spec == Init /\ [][Next]_vars


(***************************************************************************)
(* Properties of the pipeline                                              *)
(***************************************************************************)
\* number of servers of the run
N == Len(server_names)

\* positions in calls of the invocations of a collaborator
CallsOf(name) == {i \in 1..Len(calls) : calls[i].name = name}

\* C1: for every server count N >= 1, the total printed in every
\* '[step/total]' progress line of a run is 5 + N on Windows and 7 + N
\* elsewhere, the same in every line.
C1_TotalStepCount ==
    N >= 1 =>
        \A i \in 1..Len(log) : log[i].total = (IF is_windows THEN 5 ELSE 7) + N

\* a finished Windows run with three servers has printed all its lines
C1_Witness ==
    /\ pc = "done"
    /\ is_windows
    /\ N = 3
    /\ Len(log) = 8

\* C2: for N >= 1 the i-th server is created with port base + i - 1 and the
\* load balancer is created with the port of the last server, base + N - 1.
C2_Ports ==
    N >= 1 =>
        /\ \A i \in CallsOf("create_server") :
              calls[i].port = http_plain_server_port + calls[i].n - 1
        /\ \A i \in CallsOf("create_lb") :
              /\ calls[i].port = http_plain_server_port + N - 1
              /\ \E j \in CallsOf("create_server") :
                    /\ j < i
                    /\ calls[j].n = N
                    /\ calls[j].port = calls[i].port

\* three servers and the load balancer have been created
C2_Witness ==
    /\ N = 3
    /\ Cardinality(CallsOf("create_server")) = 3
    /\ CallsOf("create_lb") # {}

\* the pipeline stage a collaborator belongs to
StageOf(name) ==
    CASE name \in {"ca_create_ca", "ca_create_lb_agent", "ca_create_web_admin",
                   "ca_create_scheduler", "ca_create_server"} -> 1
      [] name = "create_odb" -> 2
      [] name = "create_cluster" -> 3
      [] name \in {"create_server", "_set_pubsub_server"} -> 4
      [] name = "create_lb" -> 5
      [] name = "create_web_admin" -> 6
      [] name = "create_scheduler" -> 7

\* script generation has begun
ScriptsBegun == Dir(".vscode", 0) \in artifacts \/ DOMAIN files # {}

\* C3: collaborators are invoked in stage order (CA, ODB schema, cluster,
\* servers 1..N, load balancer, dashboard, scheduler, scripts); after a
\* collaborator raises nothing more is invoked, nothing is invoked twice, and
\* what the earlier collaborators created stays in place.
C3_OrderAbortNoRollback ==
    \* stage order, and servers in index order
    /\ \A i, j \in 1..Len(calls) :
          i < j => /\ StageOf(calls[i].name) <= StageOf(calls[j].name)
                   /\ (calls[i].name = calls[j].name => calls[i].n < calls[j].n)
    /\ \A i \in CallsOf("create_server") :
          \A m \in 1..(calls[i].n - 1) :
             \E j \in CallsOf("create_server") : j < i /\ calls[j].n = m
    \* a later stage is entered only after every earlier stage was invoked
    /\ \A i \in 1..Len(calls) :
          \A st \in 2..(StageOf(calls[i].name) - 1) :
             (st = 4 /\ N = 0) \/ \E j \in 1..(i - 1) : StageOf(calls[j].name) = st
    /\ ScriptsBegun =>
          /\ \A st \in 2..7 :
                (st = 4 /\ N = 0) \/ \E j \in 1..Len(calls) : StageOf(calls[j].name) = st
          /\ \A i \in 1..Len(calls) : calls[i].outcome # "raise"
    \* a raise ends the run: it is the last invocation
    /\ \A i \in 1..Len(calls) :
          calls[i].outcome = "raise" => i = Len(calls) /\ pc = "raised"
    \* no rollback
    /\ \A i \in 1..Len(calls) :
          (calls[i].outcome = "ok" /\ calls[i].name # "_set_pubsub_server")
             => Made(calls[i].name, calls[i].n) \in artifacts

\* the dashboard collaborator raised after the stages before it had succeeded
C3_Witness ==
    /\ pc = "raised"
    /\ N = 2
    /\ calls[Len(calls)].name = "create_web_admin"
    /\ calls[Len(calls)].outcome = "raise"
    /\ Made("create_lb", 0) \in artifacts
    /\ Made("create_server", 2) \in artifacts

\* C4: the 'ODB exists' and 'cluster name already exists' sentinels do not
\* abort the run: each logs its own informational line, takes exactly one
\* step number as the success branch does, and the later stages follow.
C4_Sentinels ==
    /\ \A i \in CallsOf("create_odb") :
          calls[i].outcome \in {"ok", "exists"} =>
             /\ Len(log) >= 2
             /\ log[2].step = log[1].step + 1
             /\ log[2].msg = (IF calls[i].outcome = "exists"
                              THEN "ODB schema already exists"
                              ELSE "ODB schema created")
             /\ (pc = "raised" => i # Len(calls))
             /\ pc # "odb"
    /\ \A i \in CallsOf("create_cluster") :
          calls[i].outcome \in {"ok", "exists"} =>
             /\ Len(log) >= 3
             /\ log[3].step = log[2].step + 1
             /\ log[3].msg = (IF calls[i].outcome = "exists"
                              THEN "Cluster already exists"
                              ELSE "Cluster created with ODB initial data")
             /\ (pc = "raised" => i # Len(calls))
             /\ pc # "cluster"
    /\ \A i \in 1..Len(log) :
          (/\ log[i].msg \in {"ODB schema already exists", "Cluster already exists"}
           /\ i < Len(log))
             => log[i + 1].step = log[i].step + 1

\* a run in which both collaborators returned their sentinel has finished
C4_Witness ==
    /\ pc = "done"
    /\ \E i \in CallsOf("create_odb") : calls[i].outcome = "exists"
    /\ \E i \in CallsOf("create_cluster") : calls[i].outcome = "exists"
    /\ N = 2

\* C5: whatever value of --servers execute accepts, at least one server slot
\* is created, so the scheduler is given a first server path.
C5_AtLeastOneServer ==
    /\ pc \notin {"start", "idle"} => N >= 1
    /\ \A i \in CallsOf("create_scheduler") : calls[i].server_path # 0


(***************************************************************************)
(* Properties of the locator                                               *)
(***************************************************************************)
\* the attribute locate sets for a crypto_name
PathOf(crypto_name) ==
    CASE crypto_name = "cert" -> cert_path
      [] crypto_name = "priv" -> priv_path
      [] crypto_name = "pub" -> pub_path

\* the names in out-<crypto_name> whose own name contains '<pattern>-<kind>'
MatchingNames(crypto_name) ==
    {name \in out_files[crypto_name] :
        Contains(Needle(component_pattern, crypto_name), name)}

\* C6: locate binds a path only to a file whose own name contains
\* '<pattern>-<kind>', whatever the CA directory and the pattern; a kind with
\* no such file keeps None and no error is raised.
C6_MatchesFileName ==
    (ca_exists /\ located # "no") =>
        /\ located = "yes"
        /\ \A k \in {"cert", "priv", "pub"} :
              IF MatchingNames(k) = {}
              THEN PathOf(k) = None
              ELSE \E name \in MatchingNames(k) :
                      PathOf(k) = PathJoin(PathJoin(ca_dir, OutDirName(k)), name)

\* C7: with the files and the pattern fixed, locate returns the same three
\* paths whatever order the directory listing yields the names in, also when
\* several files of a kind match.
C7_OrderIndependent ==
    [][(located = "yes" /\ located' = "yes")
          => <<cert_path, priv_path, pub_path>>' = <<cert_path, priv_path, pub_path>>]_vars

(***************************************************************************)
(* Properties of the generated scripts                                     *)
(***************************************************************************)
\* a command of a run, without its echo lines
Cmd(cmd, comp, n) == [cmd |-> cmd, comp |-> comp, n |-> n]
IsCommand(e) ==
    e.cmd \in {"check-config", "check_tcp_ports.py", "start", "stop", "exit"}
RECURSIVE Commands(_)
Commands(trace) ==
    IF trace = <<>> THEN <<>>
    ELSE (IF IsCommand(Head(trace))
          THEN <<Cmd(Head(trace).cmd, Head(trace).comp, Head(trace).n)>>
          ELSE <<>>) \o Commands(Tail(trace))

StartOrder ==
    [i \in 1..N |-> Cmd("check-config", "server", i)]
      \o <<Cmd("check_tcp_ports.py", "", 0), Cmd("start", "load-balancer", 0)>>
      \o [i \in 1..N |-> Cmd("start", "server", i)]
      \o <<Cmd("start", "scheduler", 0), Cmd("start", "web-admin", 0), Cmd("exit", "", 0)>>

StopOrder ==
    <<Cmd("stop", "load-balancer", 0)>>
      \o [i \in 1..N |-> Cmd("stop", "server", i)]
      \o <<Cmd("stop", "web-admin", 0), Cmd("stop", "scheduler", 0)>>

\* C8: on a non-Windows platform, for N >= 1, the start script runs the
\* configuration checks, the TCP port check, the load-balancer start, the
\* starts of server1..serverN in order, the scheduler start, the dashboard
\* start and exit 0; the stop script stops the load balancer, server1..serverN
\* in order, the dashboard and then the scheduler.
C8_ScriptOrder ==
    (is_non_windows /\ N >= 1) =>
        /\ "zato-qs-start.sh" \in DOMAIN ran =>
              Commands(ran["zato-qs-start.sh"].trace) = StartOrder
        /\ "zato-qs-stop.sh" \in DOMAIN ran =>
              Commands(ran["zato-qs-stop.sh"].trace) = StopOrder
        /\ "zato-qs-restart.sh" \in DOMAIN ran =>
              Commands(ran["zato-qs-restart.sh"].trace) = StopOrder \o StartOrder

\* both scripts of a cluster of three servers have been run
C8_Witness ==
    /\ is_non_windows
    /\ N = 3
    /\ {"zato-qs-start.sh", "zato-qs-stop.sh"} \subseteq DOMAIN ran
    /\ Len(ran["zato-qs-start.sh"].trace) > 0
    /\ Len(ran["zato-qs-stop.sh"].trace) > 0

\* C9: for N >= 1 the stop script run with --delete-pidfiles deletes the
\* pidfile of every component it then stops.
C9_DeletesEveryPidfile ==
    (/\ is_non_windows
     /\ N >= 1
     /\ "zato-qs-stop.sh" \in DOMAIN ran
     /\ ran["zato-qs-stop.sh"].arg = "--delete-pidfiles") =>
        LET trace == ran["zato-qs-stop.sh"].trace
        IN  \A i \in 1..Len(trace) :
               trace[i].cmd = "stop" =>
                  \E j \in 1..(i - 1) :
                     /\ trace[j].cmd = "rm pidfile"
                     /\ trace[j].comp = trace[i].comp
                     /\ trace[j].n = trace[i].n

OperationalScripts ==
    {"zato-qs-start.bat", "zato-qs-start.sh", "zato-qs-stop.sh", "zato-qs-restart.sh"}

\* C10: which operational scripts are written depends on the platform alone.
\* Windows: only zato-qs-start.bat, never the stop or restart script, no
\* chmod, no load-balancer start line.  Elsewhere: zato-qs-start.sh,
\* zato-qs-stop.sh and zato-qs-restart.sh, each with mode owner rwx + group r.
C10_ScriptSet ==
    /\ is_windows =>
          /\ DOMAIN files \cap OperationalScripts \subseteq {"zato-qs-start.bat"}
          /\ DOMAIN modes = {}
          /\ pc = "done" =>
                /\ "zato-qs-start.bat" \in DOMAIN files
                /\ \A i \in 1..Len(files["zato-qs-start.bat"]) :
                      files["zato-qs-start.bat"][i].comp # "load-balancer"
    /\ is_non_windows =>
          /\ "zato-qs-start.bat" \notin DOMAIN files
          /\ \A p \in DOMAIN modes :
                modes[p] = {"S_IRUSR", "S_IWUSR", "S_IXUSR", "S_IRGRP"}
          /\ pc = "done" =>
                /\ DOMAIN files \cap OperationalScripts
                      = {"zato-qs-start.sh", "zato-qs-stop.sh", "zato-qs-restart.sh"}
                /\ DOMAIN modes = {"zato-qs-start.sh", "zato-qs-stop.sh", "zato-qs-restart.sh"}

\* a Windows run has finished and written its batch file
C10_Witness ==
    /\ pc = "done"
    /\ is_windows
    /\ N = 2
    /\ "zato-qs-start.bat" \in DOMAIN files


(***************************************************************************)
(* Properties of the pub/sub wiring and of the progress counter            *)
(***************************************************************************)
\* the subscriptions of the sample topic of the cluster of this run
SampleSubs ==
    {i \in DOMAIN subs :
        /\ Topics[subs[i].topic_id].name = "/zato/demo/sample"
        /\ Clusters[Topics[subs[i].topic_id].cluster_id] = "quickstart"}

\* C11: _set_pubsub_server is called exactly once in the servers stage, for
\* the first server and with the id its creation returned; once committed,
\* every subscription of '/zato/demo/sample' in the target cluster has that
\* server_id and every other subscription is as before; later servers change
\* no subscription; the scheduler is given the first server's path.
C11_PubSubFirstServer ==
    LET ps == CallsOf("_set_pubsub_server")
        committed == {i \in ps : calls[i].outcome = "ok"}
    IN  /\ Cardinality(ps) <= 1
        /\ CallsOf("create_lb") # {} => Cardinality(ps) = 1
        /\ \A i \in ps :
              /\ calls[i].n = 1
              /\ i > 1
              /\ calls[i - 1].name = "create_server"
              /\ calls[i - 1].n = 1
              /\ calls[i - 1].outcome = "ok"
              /\ calls[i - 1].server_id = calls[i].server_id
        /\ \A i \in committed :
              \A r \in DOMAIN subs :
                 IF r \in SampleSubs
                 THEN subs[r].server_id = calls[i].server_id
                 ELSE subs[r] = InitialSubs[r]
        /\ committed = {} => subs = InitialSubs
        /\ \A i \in CallsOf("create_scheduler") :
              /\ calls[i].server_path = 1
              /\ first_server_path = 1

\* the same, in the runs that create at least one server
PubSubWiringWithServers == N >= 1 => C11_PubSubFirstServer

\* three servers were created, the first one's id differs from a stale one
PubSubWiringReached ==
    /\ N = 3
    /\ CallsOf("create_scheduler") # {}
    /\ \E i \in CallsOf("_set_pubsub_server") : calls[i].server_id = 1
    /\ SampleSubs # {}


\* C12: in every completed run, on both platforms, for every N >= 1 and
\* every combination of 'already exists' outcomes, the step numbers of the
\* progress lines are exactly 1, 2, ..., total in that order: the last line
\* reads [total/total] and no line has step > total.
C12_StepNumbers ==
    N >= 1 =>
        /\ \A i \in 1..Len(log) :
              /\ log[i].step = i
              /\ log[i].step <= log[i].total
        /\ pc = "done" =>
              /\ Len(log) = (IF is_windows THEN 5 ELSE 7) + N
              /\ log[Len(log)].step = log[Len(log)].total

\* a completed Windows run of two servers in which both sentinels came back
C12_Witness ==
    /\ pc = "done"
    /\ is_windows
    /\ N = 2
    /\ Len(log) = 7
    /\ \E i \in CallsOf("create_odb") : calls[i].outcome = "exists"
    /\ \E i \in CallsOf("create_cluster") : calls[i].outcome = "exists"

\* the step labels a run echoed, in order
RECURSIVE Labels(_)
Labels(trace) ==
    IF trace = <<>> THEN <<>>
    ELSE (IF Head(trace).cmd = "echo" /\ Head(trace).step # 0
          THEN <<Head(trace).step>>
          ELSE <<>>) \o Labels(Tail(trace))

\* the values a script assigns to STEPS
StepsOf(script) == {script[i].n : i \in {j \in 1..Len(script) : script[j].cmd = "STEPS="}}

\* the label echoed for a component by a run
LabelOf(trace, comp, n) ==
    {trace[i].step : i \in {j \in 1..Len(trace) :
        trace[j].cmd = "echo" /\ trace[j].comp = comp /\ trace[j].n = n}}

\* C13: on a non-Windows platform, for N >= 1, the start script echoes the
\* labels 1, 2, ..., 6 + N with STEPS = 6 + N (servers 5..N+4, scheduler N+5,
\* dashboard STEPS) and the stop script the labels 1, 2, ..., 3 + N with
\* STEPS = 3 + N (servers 2..N+1, dashboard N+2, scheduler STEPS).
C13_ScriptLabels ==
    (is_non_windows /\ N >= 1) =>
        /\ "zato-qs-start.sh" \in DOMAIN ran =>
              LET trace == ran["zato-qs-start.sh"].trace
              IN  /\ StepsOf(files["zato-qs-start.sh"]) = {6 + N}
                  /\ Labels(trace) = [i \in 1..(6 + N) |-> i]
                  /\ \A i \in 1..N : LabelOf(trace, "server", i) = {i + 4}
                  /\ LabelOf(trace, "scheduler", 0) = {N + 5}
                  /\ LabelOf(trace, "web-admin", 0) = {N + 6}
        /\ "zato-qs-stop.sh" \in DOMAIN ran =>
              LET trace == ran["zato-qs-stop.sh"].trace
              IN  /\ StepsOf(files["zato-qs-stop.sh"]) = {3 + N}
                  /\ Labels(trace) = [i \in 1..(3 + N) |-> i]
                  /\ \A i \in 1..N : LabelOf(trace, "server", i) = {i + 1}
                  /\ LabelOf(trace, "web-admin", 0) = {N + 2}
                  /\ LabelOf(trace, "scheduler", 0) = {N + 3}

\* both scripts of a cluster of three servers have echoed their last label
C13_Witness ==
    /\ is_non_windows
    /\ N = 3
    /\ {"zato-qs-start.sh", "zato-qs-stop.sh"} \subseteq DOMAIN ran
    /\ 9 \in LabelOf(ran["zato-qs-start.sh"].trace, "web-admin", 0)
    /\ 6 \in LabelOf(ran["zato-qs-stop.sh"].trace, "scheduler", 0)

\* C14: on both platforms, for N >= 1, the generated start script has a
\* start command for each of server1..serverN; on Windows zato-qs-start.bat
\* starts every created server, not only server1.
C14_StartsEveryServer ==
    (pc = "done" /\ N >= 1) =>
        \A i \in 1..N :
           \E j \in 1..Len(files[zato_qs_start_path]) :
              /\ files[zato_qs_start_path][j].cmd = "start"
              /\ files[zato_qs_start_path][j].comp = "server"
              /\ files[zato_qs_start_path][j].n = i

====
